---- MODULE Spec2Model ----
(***************************************************************************)
(* Digital lending platform: the loan ledger (DigitalLoanManager), the     *)
(* borrowing policy (LoanRules), the catalog's copy counts                 *)
(* (DigitalContent), the token authority (DRMController), the access       *)
(* control orchestrator (AccessControlManager) and the request handlers    *)
(* in front of them.                                                       *)
(*                                                                         *)
(* Time is counted in ticks, TicksPerDay ticks to the day.  setDate(d + n) *)
(* adds n days and setHours(h + 24) adds one day.  A timer armed by        *)
(* setTimeout fires no earlier than its time; it may fire later.  The      *)
(* periods drawn below keep every delay under the runtime's 2^31 - 1 ms    *)
(* timer limit.                                                            *)
(***************************************************************************)
EXTENDS Integers, FiniteSets, Sequences, TLC

\* ------------------------------------------------------------- bounds
MaxLoans == 2
MaxTime == 2
MaxTokens == 2
MaxRequests == 2
TicksPerDay == 2

\* ------------------------------------------------- program constants
MAX_CONCURRENT_LOANS == 10
MAX_LOAN_PERIOD_DAYS == 21
MIN_LOAN_PERIOD_DAYS == 1
TOKEN_DURATION_HOURS == 24
MAX_RENEWALS == 2

\* ----------------------------------------------------------- inputs
Users == {"u1", "u2"}
Catalog == {"c1", "c2"}
ContentIds == Catalog \cup {"cx"}
LoanPeriods == {0, 1}
ExtensionDays == {1}

NoLoan == 0
NoToken == 0

VARIABLES
  now,              \* the clock, in ticks
  loans,            \* DigitalLoanManager.loans: loanId -> DigitalLoan
  userLoans,        \* DigitalLoanManager.userLoans: userId -> set of loanIds
  totalCopies,      \* metadata.totalCopies of each catalog item
  availableCopies,  \* metadata.availableCopies of each catalog item
  timers,           \* pending setTimeout callbacks: [loanId, fireAt]
  activeTokens,     \* DRMController.activeTokens: token -> AccessToken
  revokedTokens,    \* DRMController.revokedTokens
  issued,           \* number of tokens createSecureToken has produced
  fsLoans,          \* Firestore: the loan documents users/{userId}/loans/{id}
  requests,         \* the Firestore-backed handler's requests in flight
  last              \* the latest call and what it returned

vars == <<now, loans, userLoans, totalCopies, availableCopies, timers,
          activeTokens, revokedTokens, issued, fsLoans, requests, last>>

ledgerVars == <<loans, userLoans, availableCopies, timers>>
drmVars == <<activeTokens, revokedTokens, issued>>
fsVars == <<fsLoans, requests>>

LoanIds == DOMAIN loans

Response(op, ok, error, status) ==
  [op |-> op, ok |-> ok, error |-> error, status |-> status]

\* ------------------------------------------------------ DigitalContent
getContent(c) == c \in DOMAIN availableCopies

isAvailableAtZero(c) == availableCopies[c] >= 0

isAvailable(c) == availableCopies[c] > 0

decrementAvailableCopies(av, c) ==
  IF av[c] > 0 THEN [av EXCEPT ![c] = @ - 1] ELSE av

incrementAvailableCopies(av, c) ==
  IF av[c] < totalCopies[c] THEN [av EXCEPT ![c] = @ + 1] ELSE av

\* -------------------------------------------------- DigitalLoanManager
getUserLoans(u) == {l \in userLoans[u] : l \in LoanIds}

\* getActiveUserLoans without the status filter
getActiveUserLoansAnyStatus(u) == getUserLoans(u)

getActiveUserLoans(u) == {l \in getUserLoans(u) : loans[l].status = "active"}

\* hasActiveCheckout that counts a loan of any status
hasActiveCheckoutAnyStatus(u, c) ==
  \E l \in getUserLoans(u) : loans[l].contentId = c

hasActiveCheckoutOtherContent(u, c) ==
  \E l \in getActiveUserLoans(u) : loans[l].contentId # c

hasActiveCheckout(u, c) ==
  \E l \in getActiveUserLoans(u) : loans[l].contentId = c

\* getTimeRemaining without Math.max
getTimeRemainingUnclamped(l) ==
  IF l \notin LoanIds \/ loans[l].status # "active" THEN 0
  ELSE loans[l].expirationDate - now

\* getTimeRemaining that does not look at the status
getTimeRemainingIgnoringStatus(l) ==
  IF l \notin LoanIds THEN 0
  ELSE IF loans[l].expirationDate - now > 0 THEN loans[l].expirationDate - now ELSE 0

getTimeRemaining(l) ==
  IF l \notin LoanIds \/ loans[l].status # "active" THEN 0
  ELSE IF loans[l].expirationDate - now > 0 THEN loans[l].expirationDate - now ELSE 0

\* setTimeout is only called for a positive delay
scheduleAutoReturn(ts, l, expirationDate) ==
  IF expirationDate - now > 0
  THEN ts \cup {[loanId |-> l, fireAt |-> expirationDate]}
  ELSE ts

\* ------------------------------------------------------------ LoanRules
canCheckoutAtLimit(u) == Cardinality(getActiveUserLoans(u)) <= MAX_CONCURRENT_LOANS

canCheckout(u) == Cardinality(getActiveUserLoans(u)) < MAX_CONCURRENT_LOANS

isValidLoanPeriod(d) == d >= MIN_LOAN_PERIOD_DAYS /\ d <= MAX_LOAN_PERIOD_DAYS


NewLoan(u, c, d) ==
  [contentId |-> c, userId |-> u, checkoutDate |-> now,
   expirationDate |-> now + d * TicksPerDay, status |-> "active",
   autoReturnScheduled |-> TRUE, downloadToken |-> NoToken]

\* the error checkoutContent answers with, "" when it goes through
checkoutContentError(u, c) ==
  IF ~getContent(c) THEN "Content not found"
  ELSE IF ~isAvailable(c) THEN "Content not available"
  ELSE IF hasActiveCheckout(u, c) THEN "Content already checked out by user"
  ELSE ""

\* checkoutContent that starts the user's index anew
checkoutContentReplacingIndex(u, c, d, op, okStatus, failStatus) ==
  IF checkoutContentError(u, c) # ""
  THEN /\ last' = Response(op, FALSE, checkoutContentError(u, c), failStatus)
       /\ UNCHANGED ledgerVars
  ELSE LET loanId == Len(loans) + 1 IN
       /\ loans' = Append(loans, NewLoan(u, c, d))
       /\ userLoans' = [userLoans EXCEPT ![u] = {loanId}]
       /\ availableCopies' = decrementAvailableCopies(availableCopies, c)
       /\ timers' = scheduleAutoReturn(timers, loanId, now + d * TicksPerDay)
       /\ last' = Response(op, TRUE, "", okStatus)

\* checkoutContent that takes the copy before it looks for a duplicate
checkoutContentReservingFirst(u, c, d, op, okStatus, failStatus) ==
  IF checkoutContentError(u, c) # ""
  THEN /\ last' = Response(op, FALSE, checkoutContentError(u, c), failStatus)
       /\ availableCopies' =
            IF checkoutContentError(u, c) = "Content already checked out by user"
            THEN decrementAvailableCopies(availableCopies, c)
            ELSE availableCopies
       /\ UNCHANGED <<loans, userLoans, timers>>
  ELSE LET loanId == Len(loans) + 1 IN
       /\ loans' = Append(loans, NewLoan(u, c, d))
       /\ userLoans' = [userLoans EXCEPT ![u] = @ \cup {loanId}]
       /\ availableCopies' = decrementAvailableCopies(availableCopies, c)
       /\ timers' = scheduleAutoReturn(timers, loanId, now + d * TicksPerDay)
       /\ last' = Response(op, TRUE, "", okStatus)

\* checkoutContent, called as op; okStatus and failStatus are what the caller
\* answers with (0 when the caller is no request handler)
checkoutContent(u, c, d, op, okStatus, failStatus) ==
  IF checkoutContentError(u, c) # ""
  THEN /\ last' = Response(op, FALSE, checkoutContentError(u, c), failStatus)
       /\ UNCHANGED ledgerVars
  ELSE LET loanId == Len(loans) + 1 IN
       /\ loans' = Append(loans, NewLoan(u, c, d))
       /\ userLoans' = [userLoans EXCEPT ![u] = @ \cup {loanId}]
       /\ availableCopies' = decrementAvailableCopies(availableCopies, c)
       /\ timers' = scheduleAutoReturn(timers, loanId, now + d * TicksPerDay)
       /\ last' = Response(op, TRUE, "", okStatus)

\* a run issues at most cap loan ids
WithinLoanBound(u, c, cap) == checkoutContentError(u, c) = "" => Len(loans) < cap

CheckoutContent(u, c, d) ==
  /\ WithinLoanBound(u, c, MaxLoans)
  /\ checkoutContent(u, c, d, "checkoutContent", 0, 0)
  /\ UNCHANGED <<now, totalCopies, drmVars, fsVars>>

\* returnContent that does not give the copy back
returnContentKeepingCopy(l) ==
  IF l \notin LoanIds \/ loans[l].status # "active"
  THEN UNCHANGED <<loans, availableCopies>>
  ELSE /\ loans' = [loans EXCEPT ![l].status = "returned"]
       /\ availableCopies' = availableCopies

returnContentNoStatusCheck(l) ==
  IF l \notin LoanIds
  THEN UNCHANGED <<loans, availableCopies>>
  ELSE /\ loans' = [loans EXCEPT ![l].status = "returned"]
       /\ availableCopies' = incrementAvailableCopies(availableCopies, loans[l].contentId)

\* returnContent's effect on the ledger; the result is whether l was active
returnContent(l) ==
  IF l \notin LoanIds \/ loans[l].status # "active"
  THEN UNCHANGED <<loans, availableCopies>>
  ELSE /\ loans' = [loans EXCEPT ![l].status = "returned"]
       /\ availableCopies' =
            IF getContent(loans[l].contentId)
            THEN incrementAvailableCopies(availableCopies, loans[l].contentId)
            ELSE availableCopies

\* a result that only says whether the loan is known
returnContentResultIfKnown(l) == l \in LoanIds

returnContentResult(l) == l \in LoanIds /\ loans[l].status = "active"

ReturnContent(l) ==
  /\ returnContent(l)
  /\ last' = Response("returnContent", returnContentResult(l), "", 0)
  /\ UNCHANGED <<now, userLoans, totalCopies, timers, drmVars, fsVars>>

\* DigitalLoanManager.revokeAccess: clears the loan's downloadToken field
revokeAccess(ls, l) ==
  IF l \in DOMAIN ls THEN [ls EXCEPT ![l].downloadToken = NoToken] ELSE ls

\* expireLoan that only refuses a loan that has expired already
expireLoanOfReturned(l) ==
  IF l \notin LoanIds \/ loans[l].status = "expired"
  THEN UNCHANGED <<loans, availableCopies>>
  ELSE /\ loans' = revokeAccess([loans EXCEPT ![l].status = "expired"], l)
       /\ availableCopies' =
            IF getContent(loans[l].contentId)
            THEN incrementAvailableCopies(availableCopies, loans[l].contentId)
            ELSE availableCopies

expireLoanNoStatusCheck(l) ==
  IF l \notin LoanIds
  THEN UNCHANGED <<loans, availableCopies>>
  ELSE /\ loans' = [loans EXCEPT ![l].status = "expired"]
       /\ availableCopies' = incrementAvailableCopies(availableCopies, loans[l].contentId)

expireLoan(l) ==
  IF l \notin LoanIds \/ loans[l].status # "active"
  THEN UNCHANGED <<loans, availableCopies>>
  ELSE /\ loans' = revokeAccess([loans EXCEPT ![l].status = "expired"], l)
       /\ availableCopies' =
            IF getContent(loans[l].contentId)
            THEN incrementAvailableCopies(availableCopies, loans[l].contentId)
            ELSE availableCopies

\* a setTimeout callback armed by scheduleAutoReturn runs
TimerFire(t) ==
  /\ t \in timers
  /\ now >= t.fireAt
  /\ timers' = timers \ {t}
  /\ expireLoan(t.loanId)
  /\ UNCHANGED <<now, userLoans, totalCopies, drmVars, last, fsVars>>

\* renewLoan that does not look at the status
RenewLoanAnyStatus(l, e) ==
  /\ IF l \notin LoanIds
     THEN /\ UNCHANGED <<loans, timers>>
          /\ last' = Response("renewLoan", FALSE, "", 0)
     ELSE LET newExpirationDate == loans[l].expirationDate + e * TicksPerDay IN
          /\ newExpirationDate <= MaxTime + TicksPerDay
          /\ loans' = [loans EXCEPT ![l].expirationDate = newExpirationDate]
          /\ timers' = scheduleAutoReturn(timers, l, newExpirationDate)
          /\ last' = Response("renewLoan", TRUE, "", 0)
  /\ UNCHANGED <<now, userLoans, totalCopies, availableCopies, drmVars, fsVars>>

\* renewLoan that refuses a loan already extended MAX_RENEWALS times by a day
renewLoanCapped(l, e, horizon) ==
  /\ IF \/ l \notin LoanIds
        \/ loans[l].status # "active"
        \/ loans[l].expirationDate - loans[l].checkoutDate
             >= (MAX_RENEWALS + 1) * TicksPerDay
     THEN /\ UNCHANGED <<loans, timers>>
          /\ last' = Response("renewLoan", FALSE, "", 0)
     ELSE LET newExpirationDate == loans[l].expirationDate + e * TicksPerDay IN
          /\ newExpirationDate <= horizon
          /\ loans' = [loans EXCEPT ![l].expirationDate = newExpirationDate]
          /\ timers' = scheduleAutoReturn(timers, l, newExpirationDate)
          /\ last' = Response("renewLoan", TRUE, "", 0)
  /\ UNCHANGED <<now, userLoans, totalCopies, availableCopies, drmVars, fsVars>>

\* DigitalLoanManager.renewLoan; expiration dates stay within the horizon
renewLoan(l, e, horizon) ==
  /\ IF l \notin LoanIds \/ loans[l].status # "active"
     THEN /\ UNCHANGED <<loans, timers>>
          /\ last' = Response("renewLoan", FALSE, "", 0)
     ELSE LET newExpirationDate == loans[l].expirationDate + e * TicksPerDay IN
          /\ newExpirationDate <= horizon
          /\ loans' = [loans EXCEPT ![l].expirationDate = newExpirationDate]
          /\ timers' = scheduleAutoReturn(timers, l, newExpirationDate)
          /\ last' = Response("renewLoan", TRUE, "", 0)
  /\ UNCHANGED <<now, userLoans, totalCopies, availableCopies, drmVars, fsVars>>

RenewLoan(l, e) == renewLoan(l, e, MaxTime + TicksPerDay)

\* renewLoan with room for more renewals than MAX_RENEWALS
RenewHorizon == MaxTime + (MAX_RENEWALS + 1) * TicksPerDay
RenewLoanAgain(l, e) == renewLoan(l, e, RenewHorizon)

FireTimer == \E t \in timers : TimerFire(t)

\* the clock advances, up to the run's horizon
tick(horizon) ==
  /\ now < horizon
  /\ now' = now + 1
  /\ UNCHANGED <<ledgerVars, totalCopies, drmVars, last, fsVars>>

Tick == tick(MaxTime)

\* one tick more: a token issued at 0 for 24 hours can be found out of date
TickAccess == tick(MaxTime + 1)

\* ---------------------------------------------------- UnifiedLoanManager
ItemTypes == {"digital", "physical"}

UnifiedCheckout(u, c, itemType, d) ==
  /\ IF itemType = "digital"
     THEN /\ WithinLoanBound(u, c, MaxLoans)
          /\ checkoutContent(u, c, d, "UnifiedLoanManager.checkout", 0, 0)
     ELSE /\ last' = Response("UnifiedLoanManager.checkout", FALSE,
                              "Physical checkout not implemented", 0)
          /\ UNCHANGED ledgerVars
  /\ UNCHANGED <<now, totalCopies, drmVars, fsVars>>

\* ---------------------------------------------------------- DRMController
\* setHours(h + durationHours), in ticks
durationTicks(durationHours) == (durationHours * TicksPerDay) \div 24

generateAccessToken(l, u, c, durationHours) ==
  LET token == issued + 1 IN
  /\ issued' = token
  /\ activeTokens' = activeTokens \cup
       {[token |-> token, loanId |-> l, userId |-> u, contentId |-> c,
         issuedAt |-> now, expiresAt |-> now + durationTicks(durationHours)]}
  /\ UNCHANGED revokedTokens

getTokenInfo(at, tok) == {a \in at : a.token = tok}

\* validateAccessToken that refuses a token in the instant it was issued
validateAccessTokenNotAtIssue(tok) ==
  /\ tok \notin revokedTokens
  /\ getTokenInfo(activeTokens, tok) # {}
  /\ \A a \in getTokenInfo(activeTokens, tok) :
       now > a.issuedAt /\ ~(now > a.expiresAt)

\* what validateAccessToken(tok) returns
validateAccessToken(tok) ==
  /\ tok \notin revokedTokens
  /\ getTokenInfo(activeTokens, tok) # {}
  /\ \A a \in getTokenInfo(activeTokens, tok) : ~(now > a.expiresAt)

\* revokeToken, on an active map at and a revoked set rt
revokeTokenActive(at, tok) == {a \in at : a.token # tok}
revokeTokenRevoked(rt, tok) == rt \cup {tok}

\* a validateAccessToken that only answers
validateAccessTokenNoEffect(tok) == UNCHANGED <<activeTokens, revokedTokens>>

\* what validateAccessToken(tok) leaves behind: an outdated token is revoked
validateAccessTokenEffect(tok) ==
  IF /\ tok \notin revokedTokens
     /\ \E a \in getTokenInfo(activeTokens, tok) : now > a.expiresAt
  THEN /\ activeTokens' = revokeTokenActive(activeTokens, tok)
       /\ revokedTokens' = revokeTokenRevoked(revokedTokens, tok)
  ELSE UNCHANGED <<activeTokens, revokedTokens>>

\* revokeAllTokensForLoan that does not compare the loan
revokeAllTokensEveryLoan(l) ==
  /\ activeTokens' = {}
  /\ revokedTokens' = revokedTokens \cup {a.token : a \in activeTokens}

revokeAllTokensForLoan(l) ==
  LET tokensToRevoke == {a.token : a \in {b \in activeTokens : b.loanId = l}} IN
  /\ activeTokens' = {a \in activeTokens : a.token \notin tokensToRevoke}
  /\ revokedTokens' = revokedTokens \cup tokensToRevoke

\* the controller's methods, called on it directly
GenerateAccessToken(l, u, c) ==
  /\ issued < MaxTokens
  /\ generateAccessToken(l, u, c, TOKEN_DURATION_HOURS)
  /\ last' = Response("generateAccessToken", TRUE, "", 0)
  /\ UNCHANGED <<now, ledgerVars, totalCopies, fsVars>>

ValidateAccessToken(tok) ==
  /\ validateAccessTokenEffect(tok)
  /\ last' = Response("validateAccessToken", validateAccessToken(tok), "", 0)
  /\ UNCHANGED <<now, ledgerVars, totalCopies, issued, fsVars>>

\* a caller can name a token that was issued or one that never will be: the
\* 32 random bytes of a token to come cannot be named
RevokeToken(tok) ==
  /\ tok <= issued \/ tok > MaxTokens
  /\ activeTokens' = revokeTokenActive(activeTokens, tok)
  /\ revokedTokens' = revokeTokenRevoked(revokedTokens, tok)
  /\ last' = Response("revokeToken", TRUE, "", 0)
  /\ UNCHANGED <<now, ledgerVars, totalCopies, issued, fsVars>>

RevokeAllTokensForLoan(l) ==
  /\ revokeAllTokensForLoan(l)
  /\ last' = Response("revokeAllTokensForLoan", TRUE, "", 0)
  /\ UNCHANGED <<now, ledgerVars, totalCopies, issued, fsVars>>

\* --------------------------------------------------- AccessControlManager
authorizeDownloadError(l, u) ==
  IF l \notin LoanIds THEN "Loan not found"
  ELSE IF loans[l].userId # u THEN "Unauthorized user"
  ELSE IF getTimeRemaining(l) <= 0 THEN "Loan expired"
  ELSE ""

\* authorizeDownload that revokes the loan's tokens when it refuses a stranger
AuthorizeDownloadRevokingOnRefusal(l, u) ==
  /\ IF authorizeDownloadError(l, u) = "Unauthorized user"
     THEN /\ last' = Response("authorizeDownload", FALSE, authorizeDownloadError(l, u), 0)
          /\ revokeAllTokensForLoan(l)
          /\ UNCHANGED issued
     ELSE IF authorizeDownloadError(l, u) # ""
     THEN /\ last' = Response("authorizeDownload", FALSE, authorizeDownloadError(l, u), 0)
          /\ UNCHANGED drmVars
     ELSE /\ issued < MaxTokens
          /\ generateAccessToken(l, u, loans[l].contentId, TOKEN_DURATION_HOURS)
          /\ last' = Response("authorizeDownload", TRUE, "", 0)
  /\ UNCHANGED <<now, ledgerVars, totalCopies, fsVars>>

AuthorizeDownload(l, u) ==
  /\ IF authorizeDownloadError(l, u) # ""
     THEN /\ last' = Response("authorizeDownload", FALSE, authorizeDownloadError(l, u), 0)
          /\ UNCHANGED drmVars
     ELSE /\ issued < MaxTokens
          /\ generateAccessToken(l, u, loans[l].contentId, TOKEN_DURATION_HOURS)
          /\ last' = Response("authorizeDownload", TRUE, "", 0)
  /\ UNCHANGED <<now, ledgerVars, totalCopies, fsVars>>

\* validateAccess that does not compare the item
validateAccessAnyContent(tok, c) ==
  /\ validateAccessToken(tok)
  /\ getTokenInfo(activeTokens, tok) # {}

\* what validateAccess(tok, c) returns
validateAccess(tok, c) ==
  /\ validateAccessToken(tok)
  /\ \E a \in getTokenInfo(activeTokens, tok) : a.contentId = c

ValidateAccess(tok, c) ==
  /\ validateAccessTokenEffect(tok)
  /\ last' = Response("validateAccess", validateAccess(tok, c), "", 0)
  /\ UNCHANGED <<now, ledgerVars, totalCopies, issued, fsVars>>

\* AccessControlManager.revokeAccess
RevokeAccess(l) ==
  /\ revokeAllTokensForLoan(l)
  /\ last' = Response("revokeAccess", TRUE, "", 0)
  /\ UNCHANGED <<now, ledgerVars, totalCopies, issued, fsVars>>

\* ------------------------------------- request handlers (loan manager)
PeriodError == "Loan period must be between 1 and 21 days"
LimitError == "Maximum concurrent loans (10) reached"

\* POST /api/digital/checkout on the loan manager singleton, up to the call of
\* checkoutContent: the error the handler answers with, "" if it goes on; a
\* loanPeriodDays of 0 is falsy and counts as a missing field
checkoutRouteValidation(u, d) ==
  IF d = 0 THEN "Missing required fields"
  ELSE IF ~isValidLoanPeriod(d) THEN PeriodError
  ELSE IF ~canCheckout(u) THEN LimitError
  ELSE ""

\* the error of the whole request, "" if it succeeds
checkoutRouteError(u, c, d) ==
  IF checkoutRouteValidation(u, d) # ""
  THEN checkoutRouteValidation(u, d)
  ELSE checkoutContentError(u, c)

CheckoutRoute(u, c, d, cap) ==
  /\ IF checkoutRouteValidation(u, d) # ""
     THEN /\ last' = Response("POST checkout", FALSE, checkoutRouteValidation(u, d), 400)
          /\ UNCHANGED ledgerVars
     ELSE /\ WithinLoanBound(u, c, cap)
          /\ checkoutContent(u, c, d, "POST checkout", 200, 400)
  /\ UNCHANGED <<now, totalCopies, drmVars, fsVars>>

\* POST /api/digital/return on the loan manager singleton
ReturnRoute(l, u) ==
  /\ IF l \notin LoanIds
     THEN /\ last' = Response("POST return", FALSE, "Loan not found", 404)
          /\ UNCHANGED <<loans, availableCopies>>
     ELSE IF loans[l].userId # u
     THEN /\ last' = Response("POST return", FALSE, "Unauthorized", 403)
          /\ UNCHANGED <<loans, availableCopies>>
     ELSE /\ returnContent(l)
          /\ last' = IF returnContentResult(l)
                     THEN Response("POST return", TRUE, "", 200)
                     ELSE Response("POST return", FALSE, "Return failed", 400)
  /\ UNCHANGED <<now, userLoans, totalCopies, timers, drmVars, fsVars>>

\* the token in the downloadUrl of loan l's checkout: generateDownloadUrl
\* encodes loanId and Date.now(); no DRMController is told of it.  It is kept
\* apart from the controller's tokens (1, 2, ...) and from NoToken.
downloadUrlToken(l) == 0 - l

\* a validateAccess that accepts whatever is presented
validateAccessOnAnyToken(at, rt, tok, c) == tok \notin rt

\* validateAccess on a controller whose maps are at and rt
validateAccessOn(at, rt, tok, c) ==
  /\ tok \notin rt
  /\ getTokenInfo(at, tok) # {}
  /\ \A a \in getTokenInfo(at, tok) : ~(now > a.expiresAt)
  /\ \E a \in getTokenInfo(at, tok) : a.contentId = c

\* GET /api/digital/download/[loanId]: the handler builds a DRMController of
\* its own for every request, with empty maps
downloadError(l, tok) ==
  IF tok = NoToken THEN "Access token required"
  ELSE IF l \notin LoanIds THEN "Loan not found"
  ELSE IF ~validateAccessOn({}, {}, tok, loans[l].contentId)
       THEN "Invalid or expired token"
  ELSE IF ~getContent(loans[l].contentId) THEN "Content not found"
  ELSE ""

downloadStatus(error) ==
  IF error = "Access token required" THEN 401
  ELSE IF error = "Invalid or expired token" THEN 403
  ELSE IF error = "" THEN 200
  ELSE 404

DownloadRoute(l, tok) ==
  /\ last' = Response("GET download", downloadError(l, tok) = "",
                      downloadError(l, tok), downloadStatus(downloadError(l, tok)))
  /\ UNCHANGED <<now, ledgerVars, totalCopies, drmVars, fsVars>>

\* ---------------------------------------- request handlers (Firestore)
Requests == 1 .. MaxRequests

IdleRequest ==
  [pc |-> "idle", userId |-> "", contentId |-> "", loanPeriodDays |-> 0,
   expirationDate |-> 0, loanId |-> NoLoan,
   ok |-> FALSE, error |-> "", status |-> 0]

Answer(r, ok, error, status) ==
  [r EXCEPT !.pc = "done", !.ok = ok, !.error = error, !.status = status]

\* firebase-user-data: the user's documents with status active
fsActiveUserLoans(u) ==
  {i \in DOMAIN fsLoans : fsLoans[i].userId = u /\ fsLoans[i].status = "active"}

\* firebase-user-data.hasActiveLoan
hasActiveLoan(u, c) ==
  \E i \in fsActiveUserLoans(u) : fsLoans[i].contentId = c

\* POST /api/digital/checkout: the body is read and validated
FsBegin(p, u, c, d) ==
  /\ requests[p].pc = "idle"
  /\ requests' = [requests EXCEPT ![p] =
       IF d = 0
       THEN Answer([@ EXCEPT !.userId = u, !.contentId = c], FALSE, "Missing required fields", 400)
       ELSE IF ~isValidLoanPeriod(d)
       THEN Answer([@ EXCEPT !.userId = u, !.contentId = c], FALSE, PeriodError, 400)
       ELSE [@ EXCEPT !.pc = "limit", !.userId = u, !.contentId = c,
                      !.loanPeriodDays = d]]
  /\ UNCHANGED <<now, ledgerVars, totalCopies, drmVars, fsLoans, last>>

\* await getActiveUserLoans(userId): the query runs, the limit is checked
FsCheckLimit(p) ==
  /\ requests[p].pc = "limit"
  /\ requests' = [requests EXCEPT ![p] =
       IF Cardinality(fsActiveUserLoans(@.userId)) >= MAX_CONCURRENT_LOANS
       THEN Answer(@, FALSE, LimitError, 400)
       ELSE [@ EXCEPT !.pc = "duplicate"]]
  /\ UNCHANGED <<now, ledgerVars, totalCopies, drmVars, fsLoans, last>>

\* await hasActiveLoan(userId, contentId): the query runs
FsCheckDuplicate(p) ==
  /\ requests[p].pc = "duplicate"
  /\ requests' = [requests EXCEPT ![p] =
       IF hasActiveLoan(@.userId, @.contentId)
       THEN Answer(@, FALSE, "Content already checked out by user", 400)
       ELSE [@ EXCEPT !.pc = "content"]]
  /\ UNCHANGED <<now, ledgerVars, totalCopies, drmVars, fsLoans, last>>

\* the handler resumes: getContent, isAvailable, the expirationDate is
\* computed, then addLoan is called
FsCheckContent(p) ==
  /\ requests[p].pc = "content"
  /\ requests' = [requests EXCEPT ![p] =
       IF ~getContent(@.contentId)
       THEN Answer(@, FALSE, "Content not found", 404)
       ELSE IF ~isAvailable(@.contentId)
       THEN Answer(@, FALSE, "Content not available", 400)
       ELSE [@ EXCEPT !.pc = "addLoan",
                      !.expirationDate = now + requests[p].loanPeriodDays * TicksPerDay]]
  /\ UNCHANGED <<now, ledgerVars, totalCopies, drmVars, fsLoans, last>>

\* await addLoan(userId, loan): addDoc stores the document
FsAddLoan(p) ==
  /\ requests[p].pc = "addLoan"
  /\ fsLoans' = Append(fsLoans, [userId |-> requests[p].userId,
                                 contentId |-> requests[p].contentId,
                                 expirationDate |-> requests[p].expirationDate,
                                 status |-> "active"])
  /\ requests' = [requests EXCEPT ![p].pc = "decrement",
                                  ![p].loanId = Len(fsLoans) + 1]
  /\ UNCHANGED <<now, ledgerVars, totalCopies, drmVars, last>>

\* the handler resumes: decrementAvailableCopies, the answer is sent
FsFinish(p) ==
  /\ requests[p].pc = "decrement"
  /\ availableCopies' = decrementAvailableCopies(availableCopies, requests[p].contentId)
  /\ requests' = [requests EXCEPT ![p] = Answer(@, TRUE, "", 200)]
  /\ UNCHANGED <<now, loans, userLoans, timers, totalCopies, drmVars, fsLoans, last>>

\* POST /api/digital/return: returnLoan updates users/{userId}/loans/{loanId};
\* updateDoc of a document that does not exist throws
FsReturn(l, u) ==
  /\ IF l \in DOMAIN fsLoans /\ fsLoans[l].userId = u
     THEN /\ fsLoans' = [fsLoans EXCEPT ![l].status = "returned"]
          /\ last' = Response("POST return (Firestore)", TRUE, "", 200)
     ELSE /\ UNCHANGED fsLoans
          /\ last' = Response("POST return (Firestore)", FALSE, "Return failed", 500)
  /\ UNCHANGED <<now, ledgerVars, totalCopies, drmVars, requests>>

\* ------------------------------------------------------- specification
LoanIdInputs == 1 .. (MaxLoans + 1)
TokenInputs == 1 .. (MaxTokens + 1)

\* the catalog's availableCopies when the managers are constructed
InitialAvailableCopies == [c \in Catalog |-> IF c = "c1" THEN 2 ELSE 1]

Init ==
  /\ now = 0
  /\ loans = << >>
  /\ userLoans = [u \in Users |-> {}]
  /\ totalCopies = [c \in Catalog |-> IF c = "c1" THEN 3 ELSE 1]
  /\ availableCopies = InitialAvailableCopies
  /\ timers = {}
  /\ activeTokens = {}
  /\ revokedTokens = {}
  /\ issued = 0
  /\ fsLoans = << >>
  /\ requests = [p \in Requests |-> IdleRequest]
  /\ last = Response("init", TRUE, "", 0)

\* the ledger's operations; the checkouts are of c1 and of an unknown item
LedgerContentInputs == {"c1", "cx"}

Next ==
  \/ \E u \in Users, c \in LedgerContentInputs, d \in LoanPeriods :
       CheckoutContent(u, c, d)
  \/ \E l \in LoanIdInputs : ReturnContent(l)
  \/ \E l \in LoanIdInputs, e \in ExtensionDays : RenewLoan(l, e)
  \/ FireTimer
  \/ Tick

Spec == Init /\ [][Next]_vars

\* the ledger when time passes and every trigger that is due fires in the end
SpecLive == Spec /\ WF_vars(Tick) /\ WF_vars(FireTimer)

NextUnified ==
  \/ \E u \in Users, c \in ContentIds, d \in LoanPeriods : CheckoutContent(u, c, d)
  \/ \E l \in LoanIdInputs : ReturnContent(l)
  \/ \E l \in LoanIdInputs, e \in ExtensionDays : RenewLoan(l, e)
  \/ FireTimer
  \/ Tick
  \/ \E u \in Users, c \in ContentIds, t \in ItemTypes, d \in LoanPeriods :
       UnifiedCheckout(u, c, t, d)

SpecUnified == Init /\ [][NextUnified]_vars

\* A deployment in which u1 has already borrowed nine items for 21 days
\* through the checkout handler, at time 0; two more items are on the shelf.
RouteItems == <<"i1", "i2", "i3", "i4", "i5", "i6", "i7", "i8", "i9", "i10">>
RouteHeld == MAX_CONCURRENT_LOANS - 1
RouteCatalog == {RouteItems[i] : i \in 1 .. Len(RouteItems)}
RouteContentInputs == {"i1", "i10"}
RoutePeriods == {0, 1, 22}
RouteLoanInputs == {1, RouteHeld + 1, RouteHeld + 2, RouteHeld + MaxLoans + 1}

InitRoute ==
  /\ now = 0
  /\ loans = [l \in 1 .. RouteHeld |->
               [contentId |-> RouteItems[l], userId |-> "u1", checkoutDate |-> 0,
                expirationDate |-> MAX_LOAN_PERIOD_DAYS * TicksPerDay,
                status |-> "active", autoReturnScheduled |-> TRUE,
                downloadToken |-> NoToken]]
  /\ userLoans = [u \in Users |-> IF u = "u1" THEN 1 .. RouteHeld ELSE {}]
  /\ totalCopies = [c \in RouteCatalog |-> 1]
  /\ availableCopies =
       [c \in RouteCatalog |->
          IF \E l \in 1 .. RouteHeld : RouteItems[l] = c THEN 0 ELSE 1]
  /\ timers = {[loanId |-> l, fireAt |-> MAX_LOAN_PERIOD_DAYS * TicksPerDay] :
                 l \in 1 .. RouteHeld}
  /\ activeTokens = {}
  /\ revokedTokens = {}
  /\ issued = 0
  /\ fsLoans = << >>
  /\ requests = [p \in Requests |-> IdleRequest]
  /\ last = Response("POST checkout", TRUE, "", 200)

NextRoute ==
  \/ \E u \in Users, c \in RouteContentInputs, d \in RoutePeriods :
       CheckoutRoute(u, c, d, RouteHeld + MaxLoans)
  \/ \E l \in RouteLoanInputs, u \in Users : ReturnRoute(l, u)
  \/ FireTimer
  \/ Tick

SpecRoute == InitRoute /\ [][NextRoute]_vars

FsPeriods == {0, 1, 22}
FsLoanInputs == 1 .. (MaxRequests + 1)

NextFs ==
  \/ \E p \in Requests, u \in Users, c \in ContentIds, d \in FsPeriods : FsBegin(p, u, c, d)
  \/ \E p \in Requests : FsCheckLimit(p)
  \/ \E p \in Requests : FsCheckDuplicate(p)
  \/ \E p \in Requests : FsCheckContent(p)
  \/ \E p \in Requests : FsAddLoan(p)
  \/ \E p \in Requests : FsFinish(p)
  \/ \E l \in FsLoanInputs, u \in Users : FsReturn(l, u)

SpecFs == Init /\ [][NextFs]_vars

\* the Firestore checkout handler while time passes and no return request is
\* made; requests in flight are served and the clock goes on
FsExpiryContents == {"c1"}
FsExpiryPeriods == {1}

FsServe ==
  \/ \E p \in Requests : FsCheckLimit(p)
  \/ \E p \in Requests : FsCheckDuplicate(p)
  \/ \E p \in Requests : FsCheckContent(p)
  \/ \E p \in Requests : FsAddLoan(p)
  \/ \E p \in Requests : FsFinish(p)

NextFsExpiry ==
  \/ \E p \in Requests, u \in Users, c \in FsExpiryContents, d \in FsExpiryPeriods :
       FsBegin(p, u, c, d)
  \/ FsServe
  \/ TickAccess

SpecFsExpiry ==
  Init /\ [][NextFsExpiry]_vars /\ WF_vars(FsServe) /\ WF_vars(TickAccess)

AccessLoanPeriods == {1}
AccessBorrowers == {"u1"}

NextAccess ==
  \/ \E u \in AccessBorrowers, c \in Catalog, d \in AccessLoanPeriods :
       CheckoutContent(u, c, d)
  \/ \E l \in LoanIdInputs : ReturnContent(l)
  \/ FireTimer
  \/ TickAccess
  \/ \E l \in LoanIdInputs, u \in Users : AuthorizeDownload(l, u)
  \/ \E tok \in TokenInputs, c \in ContentIds : ValidateAccess(tok, c)
  \/ \E l \in LoanIdInputs : RevokeAccess(l)

SpecAccess == Init /\ [][NextAccess]_vars

\* u1 borrows items, asks for tokens and presents them for either item
NextBinding ==
  \/ \E u \in AccessBorrowers, c \in Catalog, d \in AccessLoanPeriods :
       CheckoutContent(u, c, d)
  \/ TickAccess
  \/ \E l \in LoanIdInputs, u \in Users : AuthorizeDownload(l, u)
  \/ \E tok \in TokenInputs, c \in ContentIds : ValidateAccess(tok, c)
  \/ \E l \in LoanIdInputs : RevokeAccess(l)

SpecBinding == Init /\ [][NextBinding]_vars

\* the token authority on its own: tokens are generated for loan ids the
\* controller does not look up
DrmLoanInputs == 1 .. MaxLoans
DrmUsers == {"u1"}
DrmContents == {"c1"}

NextDrm ==
  \/ \E l \in DrmLoanInputs, u \in DrmUsers, c \in DrmContents :
       GenerateAccessToken(l, u, c)
  \/ \E tok \in TokenInputs : ValidateAccessToken(tok)
  \/ \E tok \in TokenInputs : RevokeToken(tok)
  \/ \E l \in DrmLoanInputs : RevokeAllTokensForLoan(l)
  \/ TickAccess

SpecDrm == Init /\ [][NextDrm]_vars

\* u1 borrows c1 again and again; u1 and u2 ask for tokens for any loan id
AuthorizeContents == {"c1"}

NextAuthorize ==
  \/ \E u \in AccessBorrowers, c \in AuthorizeContents, d \in AccessLoanPeriods :
       CheckoutContent(u, c, d)
  \/ \E l \in LoanIdInputs : ReturnContent(l)
  \/ FireTimer
  \/ TickAccess
  \/ \E l \in LoanIdInputs, u \in Users : AuthorizeDownload(l, u)

SpecAuthorize == Init /\ [][NextAuthorize]_vars

\* u1 borrows c1 and presents, for any loan id, no token, the token of the
\* loan's downloadUrl or a token of the access control manager
DownloadTokenInputs(l) == {NoToken, downloadUrlToken(l)} \cup TokenInputs

NextDownload ==
  \/ \E u \in AccessBorrowers, c \in AuthorizeContents, d \in AccessLoanPeriods :
       CheckoutContent(u, c, d)
  \/ \E l \in LoanIdInputs : ReturnContent(l)
  \/ FireTimer
  \/ Tick
  \/ \E l \in LoanIdInputs, u \in AccessBorrowers : AuthorizeDownload(l, u)
  \/ \E l \in LoanIdInputs : \E tok \in DownloadTokenInputs(l) : DownloadRoute(l, tok)

SpecDownload == Init /\ [][NextDownload]_vars

\* one borrower's loans of c1, renewed again and again
RenewBorrowers == {"u1"}
RenewContents == {"c1"}
RenewPeriods == {1}

NextRenew ==
  \/ \E u \in RenewBorrowers, c \in RenewContents, d \in RenewPeriods :
       CheckoutContent(u, c, d)
  \/ \E l \in LoanIdInputs : ReturnContent(l)
  \/ \E l \in LoanIdInputs, e \in ExtensionDays : RenewLoanAgain(l, e)
  \/ FireTimer
  \/ Tick

SpecRenew == Init /\ [][NextRenew]_vars

\* ----------------------------------------------------------- the ledger
ActiveLoansOf(u, c) ==
  {l \in LoanIds : /\ loans[l].userId = u
                   /\ loans[l].contentId = c
                   /\ loans[l].status = "active"}

\* C1: whatever checkoutContent, returnContent, renewLoan and expireLoan calls
\* were made, every (userId, contentId) pair has at most one active loan.
C1_OneActiveLoanPerPair ==
  \A u \in Users, c \in ContentIds : Cardinality(ActiveLoansOf(u, c)) <= 1

\* a second checkout of a held item was refused while the first loan is active
C1_Witness ==
  /\ last.op = "checkoutContent"
  /\ last.error = "Content already checked out by user"
  /\ \E u \in Users, c \in Catalog : Cardinality(ActiveLoansOf(u, c)) = 1

\* C4: no loan is moved to expired before its current expirationDate (the
\* trigger armed for the expiration a renewal replaced does nothing).
C4_NoExpiryBeforeExpirationDate ==
  \A l \in LoanIds : loans[l].status = "expired" => now >= loans[l].expirationDate

\* C5: a loan's status only changes from active to returned or to expired;
\* no call changes the status of a returned or expired loan.
C5_StatusMonotone ==
  [][\A l \in LoanIds :
       /\ l \in DOMAIN loans'
       /\ loans'[l].status # loans[l].status =>
            /\ loans[l].status = "active"
            /\ loans'[l].status \in {"returned", "expired"}]_vars

\* a loan is returned and a later returnContent on it was refused
C5_Witness ==
  /\ last.op = "returnContent"
  /\ ~last.ok
  /\ \E l \in LoanIds : loans[l].status = "returned"
  /\ \E l \in LoanIds : loans[l].status = "expired"

Released(c) ==
  Cardinality({l \in LoanIds : /\ loans[l].contentId = c
                               /\ loans[l].status = "active"
                               /\ loans'[l].status # "active"})

Taken(c) ==
  Cardinality({l \in DOMAIN loans' \ LoanIds : loans'[l].contentId = c})

\* C6: a successful checkoutContent lowers the item's availableCopies by
\* exactly 1, the returnContent or expireLoan that ends a loan raises it by
\* exactly 1 and never above totalCopies, nothing else changes it, and a loan
\* that left active never releases again.
C6_CopiesFollowLoans ==
  [][/\ \A c \in Catalog :
          /\ availableCopies'[c] = availableCopies[c] + Released(c) - Taken(c)
          /\ availableCopies'[c] <= totalCopies[c]
     /\ \A l \in LoanIds :
          loans[l].status # "active" => loans'[l].status # "active"]_vars

\* a loan was returned, another expired, and the copies are back
C6_Witness ==
  /\ \E l \in LoanIds : loans[l].status = "returned"
  /\ \E l \in LoanIds : loans[l].status = "expired"
  /\ \A l \in LoanIds : loans[l].status # "active"
  /\ availableCopies["c1"] = 2

\* C7: 0 <= availableCopies <= totalCopies for every item, and checkoutContent
\* for an item with no available copy fails with 'Content not available' and
\* changes nothing.
C7_CopiesInRange ==
  /\ [](\A c \in Catalog :
          /\ availableCopies[c] >= 0
          /\ availableCopies[c] <= totalCopies[c]
          /\ availableCopies[c] = 0 =>
               \A u \in Users : checkoutContentError(u, c) = "Content not available")
  /\ [][(last' # last /\ last'.op = "checkoutContent"
                       /\ last'.error = "Content not available") =>
          UNCHANGED ledgerVars]_vars

\* an item is out of copies and a checkout of it was refused
C7_Witness ==
  /\ last.op = "checkoutContent"
  /\ last.error = "Content not available"
  /\ \E c \in Catalog : availableCopies[c] = 0


\* C11: a checkoutContent that fails (content not found, content not available
\* or already checked out by the user) adds no loan record, leaves the user's
\* loan index and availableCopies as they were and arms no expiration trigger.
C11_FailedCheckoutChangesNothing ==
  [][last'.op = "checkoutContent" =>
     \A u \in Users, c \in LedgerContentInputs, d \in LoanPeriods :
       (checkoutContentError(u, c) # "" /\ CheckoutContent(u, c, d)) =>
          /\ ~last'.ok
          /\ last'.error = checkoutContentError(u, c)
          /\ UNCHANGED <<loans, userLoans, availableCopies, timers>>]_vars

\* a checkout of an unknown item was refused while a loan and its trigger exist
C11_Witness ==
  /\ last.op = "checkoutContent"
  /\ last.error = "Content not found"
  /\ Len(loans) = 1
  /\ timers # {}
  /\ availableCopies["c1"] = 1

\* C16: returnContent(loanId) returns true exactly when the loan exists and is
\* active, and then the loan is returned; for an unknown, returned or expired
\* loan it returns false and leaves every loan record and every copy count
\* unchanged.
C16_ReturnContentOutcome ==
  [][last'.op = "returnContent" =>
     \A l \in LoanIdInputs :
       ReturnContent(l) =>
         /\ last'.ok = (l \in LoanIds /\ loans[l].status = "active")
         /\ last'.ok => loans'[l].status = "returned"
         /\ ~last'.ok => UNCHANGED <<loans, availableCopies>>]_vars

\* the only loan was returned, its copy is back, and a second returnContent
\* was refused
C16_Witness ==
  /\ last.op = "returnContent"
  /\ ~last.ok
  /\ Len(loans) = 1
  /\ loans[1].status = "returned"
  /\ availableCopies["c1"] = 2

\* C17: renewLoan(loanId, d) with d >= 1 on an active loan returns true,
\* strictly increases the loan's expirationDate and keeps it active; on an
\* unknown, returned or expired loan it returns false and leaves the loan
\* records unchanged.
C17_RenewLoanOutcome ==
  [][last'.op = "renewLoan" =>
     \A l \in LoanIdInputs, e \in ExtensionDays :
       RenewLoan(l, e) =>
         IF l \in LoanIds /\ loans[l].status = "active"
         THEN /\ last'.ok
              /\ loans'[l].expirationDate > loans[l].expirationDate
              /\ loans'[l].status = "active"
         ELSE /\ ~last'.ok
              /\ loans' = loans]_vars

\* a one-day loan was renewed by a day and is active
C17_Witness ==
  /\ last.op = "renewLoan"
  /\ last.ok
  /\ \E l \in LoanIds :
       /\ loans[l].status = "active"
       /\ loans[l].expirationDate = loans[l].checkoutDate + 2 * TicksPerDay

\* C23: every loan created by a successful checkoutContent leaves active
\* status: it is returned, or it becomes expired once its expiration time has
\* passed (armed triggers fire in the end).  Stated for the loans whose
\* expiration time lies within the run: such a loan is returned, expired or
\* renewed past the run.
C23_LoanLeavesActive ==
  \A l \in 1 .. MaxLoans :
    (IF l \in LoanIds
     THEN loans[l].status = "active" /\ loans[l].expirationDate <= MaxTime
     ELSE FALSE)
    ~> (IF l \in LoanIds
        THEN loans[l].status # "active" \/ loans[l].expirationDate > MaxTime
        ELSE FALSE)

\* C25: loan records are never deleted: a loan that checkoutContent created
\* stays in loans, for the same user and item, and in getUserLoans of its
\* user, whatever happens later and whatever its status.
C25_LoansAreKept ==
  /\ [](\A l \in LoanIds : l \in getUserLoans(loans[l].userId))
  /\ [][\A l \in LoanIds :
          /\ l \in DOMAIN loans'
          /\ loans'[l].userId = loans[l].userId
          /\ loans'[l].contentId = loans[l].contentId
          /\ loans'[l].checkoutDate = loans[l].checkoutDate
          /\ l \in userLoans'[loans[l].userId]]_vars

\* u1 has had two loans, one returned and one expired; both are still listed
C25_Witness ==
  /\ Len(loans) = 2
  /\ getUserLoans("u1") = {1, 2}
  /\ {loans[1].status, loans[2].status} = {"returned", "expired"}

\* C29: an expiration trigger that fires after its loan was returned does
\* nothing: the loan stays returned and availableCopies is unchanged, so no
\* second copy is released.
C29_LateTriggerIsNoOp ==
  [][\A t \in timers :
       (/\ t.loanId \in LoanIds
        /\ loans[t.loanId].status = "returned"
        /\ TimerFire(t))
       => /\ loans' = loans
          /\ availableCopies' = availableCopies]_vars

\* the only loan, of one day and never renewed, was returned and its trigger
\* has fired since: the copy came back once
C29_Witness ==
  /\ Len(loans) = 1
  /\ loans[1].status = "returned"
  /\ loans[1].contentId = "c1"
  /\ loans[1].expirationDate = loans[1].checkoutDate + TicksPerDay
  /\ timers = {}
  /\ availableCopies["c1"] = 2

ActiveLoansOfItem(c) ==
  {l \in LoanIds : loans[l].contentId = c /\ loans[l].status = "active"}

\* C32: copies are conserved per item: the number of active loans of an item
\* is its initial availableCopies minus its current availableCopies, so it
\* never exceeds the copies that were available, and once the last copy is
\* taken the next checkout fails with 'Content not available'.
C32_CopiesConserved ==
  \A c \in Catalog :
    /\ Cardinality(ActiveLoansOfItem(c)) = InitialAvailableCopies[c] - availableCopies[c]
    /\ Cardinality(ActiveLoansOfItem(c)) <= InitialAvailableCopies[c]
    /\ Cardinality(ActiveLoansOfItem(c)) = InitialAvailableCopies[c]
         => \A u \in Users : checkoutContentError(u, c) = "Content not available"

\* every copy of c1 is on loan and one more checkout has just been refused
C32_Witness ==
  /\ Cardinality(ActiveLoansOfItem("c1")) = InitialAvailableCopies["c1"]
  /\ availableCopies["c1"] = 0
  /\ last.op = "checkoutContent"
  /\ ~last.ok
  /\ last.error = "Content not available"

\* the loans of item c by user u that are returned or expired
TerminalLoansOf(u, c) ==
  {l \in LoanIds : /\ loans[l].userId = u
                   /\ loans[l].contentId = c
                   /\ loans[l].status \in {"returned", "expired"}}

\* C37: a terminal loan does not block re-borrowing: when a user's loan of an
\* item is returned or expired (and the user holds no active loan of it), a
\* new checkoutContent by the same user for the same item succeeds whenever a
\* copy is available; it creates a new active loan under a new loanId and the
\* old records are unchanged.
C37_ReborrowAfterTerminal ==
  [][last'.op = "checkoutContent" =>
       \A u \in Users, c \in Catalog, d \in LoanPeriods :
         (/\ TerminalLoansOf(u, c) # {}
          /\ \A l \in LoanIds :
               (loans[l].userId = u /\ loans[l].contentId = c)
               => loans[l].status # "active"
          /\ isAvailable(c)
          /\ CheckoutContent(u, c, d))
         => /\ last'.ok
            /\ Len(loans') = Len(loans) + 1
            /\ loans'[Len(loans) + 1].userId = u
            /\ loans'[Len(loans) + 1].contentId = c
            /\ loans'[Len(loans) + 1].status = "active"
            /\ \A l \in LoanIds : loans'[l] = loans[l]]_vars

\* u1 returned c1 and has just borrowed it again: loan 1 is still returned,
\* loan 2 is active
C37_Witness ==
  /\ last.op = "checkoutContent"
  /\ last.ok
  /\ Len(loans) = 2
  /\ loans[1].userId = "u1" /\ loans[2].userId = "u1"
  /\ loans[1].contentId = "c1" /\ loans[2].contentId = "c1"
  /\ loans[1].status = "returned"
  /\ loans[2].status = "active"

\* C38: the two indexes agree: a loanId is in userLoans[u] exactly when loans
\* holds a record for it whose userId is u, so getUserLoans(u) is exactly the
\* loans of u and getActiveUserLoans(u) exactly the active ones among them.
C38_IndexesConsistent ==
  \A u \in Users :
    /\ \A l \in LoanIdInputs :
         l \in userLoans[u] <=> (l \in LoanIds /\ loans[l].userId = u)
    /\ userLoans[u] \subseteq LoanIdInputs
    /\ getUserLoans(u) = {l \in LoanIds : loans[l].userId = u}
    /\ getActiveUserLoans(u) =
         {l \in LoanIds : loans[l].userId = u /\ loans[l].status = "active"}

\* u1's only loan has expired, u2's only loan is active
C38_Witness ==
  /\ \E l \in LoanIds :
       /\ getUserLoans("u1") = {l}
       /\ loans[l].status = "expired"
       /\ getActiveUserLoans("u1") = {}
  /\ \E l \in LoanIds :
       /\ getUserLoans("u2") = {l}
       /\ getActiveUserLoans("u2") = {l}

\* C10: every loan record DigitalLoanManager creates, by checkoutContent called
\* directly or through UnifiedLoanManager.checkout, has a loan period of 1 to
\* 21 days and a user who had fewer than 10 active loans at that moment.
C10_PolicyNeverBypassed ==
  [][\A l \in DOMAIN loans' \ LoanIds :
       /\ \E d \in MIN_LOAN_PERIOD_DAYS .. MAX_LOAN_PERIOD_DAYS :
            loans'[l].expirationDate = loans'[l].checkoutDate + d * TicksPerDay
       /\ canCheckout(loans'[l].userId)]_vars


\* ------------------------------------------------------ tokens and loans
\* C2: no token that authorizeDownload issued validates while its loan is
\* expired (expireLoan revokes the loan's tokens).
C2_NoTokenValidForExpiredLoan ==
  \A a \in activeTokens :
    loans[a.loanId].status = "expired" => ~validateAccess(a.token, a.contentId)

\* C3: after returnContent succeeded, no token that authorizeDownload issued
\* for the loan validates (returning revokes the loan's tokens).
C3_NoTokenValidForReturnedLoan ==
  \A a \in activeTokens :
    loans[a.loanId].status = "returned" => ~validateAccess(a.token, a.contentId)

\* C12: a token issued by authorizeDownload for a loan of item A grants access
\* to A only: in every state in which validateAccess(token, A) is true,
\* validateAccess(token, B) is false for every item B other than A.
C12_TokenBoundToItem ==
  \A a \in activeTokens :
    /\ a.contentId = loans[a.loanId].contentId
    /\ validateAccess(a.token, loans[a.loanId].contentId) =>
         \A b \in ContentIds \ {loans[a.loanId].contentId} :
           ~validateAccess(a.token, b)

\* both items are on loan, each with a token that validates for its own item,
\* and a validateAccess call was refused
C12_Witness ==
  /\ last.op = "validateAccess"
  /\ ~last.ok
  /\ revokedTokens = {}
  /\ \A c \in Catalog :
       \E a \in activeTokens : a.contentId = c /\ validateAccess(a.token, c)

\* the tokens of loan l that the controller holds
TokensOfLoan(l) == {a.token : a \in {b \in activeTokens : b.loanId = l}}

\* C13: revokeAllTokensForLoan(L) makes every token bound to loan L fail
\* validateAccessToken from then on (a revoked token stays revoked and never
\* validates) and leaves every other token exactly as valid as it was.
C13_RevokeAllForLoan ==
  /\ [](\A tok \in revokedTokens : ~validateAccessToken(tok))
  /\ [][/\ revokedTokens \subseteq revokedTokens'
        /\ \A l \in DrmLoanInputs :
             RevokeAllTokensForLoan(l) =>
               \A tok \in TokenInputs :
                 IF tok \in TokensOfLoan(l)
                 THEN tok \in revokedTokens' /\ ~validateAccessToken(tok)'
                 ELSE validateAccessToken(tok)' = validateAccessToken(tok)]_vars

\* two loans had a valid token each; one loan's token was revoked, the other
\* still validates
C13_Witness ==
  /\ last.op = "revokeAllTokensForLoan"
  /\ issued = 2
  /\ Cardinality(revokedTokens) = 1
  /\ \E a \in activeTokens : validateAccessToken(a.token)
  /\ now < TicksPerDay

\* the first applicable error, "" when the loan exists, belongs to u, is
\* active and has time left
FirstAuthorizeError(l, u) ==
  IF l \notin LoanIds THEN "Loan not found"
  ELSE IF loans[l].userId # u THEN "Unauthorized user"
  ELSE IF loans[l].status # "active" \/ ~(loans[l].expirationDate > now)
       THEN "Loan expired"
  ELSE ""

KnownTokens == {a.token : a \in activeTokens} \cup revokedTokens

\* C14: authorizeDownload(loanId, userId) answers authorized with a fresh token
\* exactly when the loan exists, belongs to userId, is active and has time
\* left; otherwise it answers with the first of 'Loan not found',
\* 'Unauthorized user', 'Loan expired' that applies.
C14_AuthorizeDownloadOutcome ==
  /\ [](\A l \in LoanIdInputs, u \in Users :
          authorizeDownloadError(l, u) = FirstAuthorizeError(l, u))
  /\ [][last'.op = "authorizeDownload" =>
        \A l \in LoanIdInputs, u \in Users :
          AuthorizeDownload(l, u) =>
            /\ last'.error = FirstAuthorizeError(l, u)
            /\ last'.ok = (FirstAuthorizeError(l, u) = "")
            /\ FirstAuthorizeError(l, u) = "" =>
                 \E a \in activeTokens' :
                   /\ a.token \notin KnownTokens
                   /\ a.loanId = l
                   /\ a.userId = u
                   /\ a.contentId = loans[l].contentId
                   /\ validateAccessToken(a.token)']_vars

\* the owner was given a token, returned the loan and was then refused
C14_Witness ==
  /\ last.op = "authorizeDownload"
  /\ last.error = "Loan expired"
  /\ \E a \in activeTokens : loans[a.loanId].status = "returned"

\* C15: an authorizeDownload that fails issues no token and changes neither
\* the loan ledger nor the token store; the tokens issued before stay as valid
\* as they were.
C15_FailedAuthorizeChangesNothing ==
  [][(last'.op = "authorizeDownload" /\ ~last'.ok) =>
       \A l \in LoanIdInputs, u \in Users :
         AuthorizeDownload(l, u) =>
           /\ UNCHANGED <<loans, userLoans, availableCopies, timers>>
           /\ UNCHANGED <<activeTokens, revokedTokens, issued>>
           /\ \A a \in activeTokens :
                validateAccessToken(a.token)' = validateAccessToken(a.token)]_vars

\* another user was refused a token for u1's loan; u1's token still validates
C15_Witness ==
  /\ last.op = "authorizeDownload"
  /\ last.error = "Unauthorized user"
  /\ \E a \in activeTokens :
       /\ a.userId = "u1"
       /\ loans[a.loanId].status = "active"
       /\ validateAccessToken(a.token)

\* tok was issued, is not revoked, and the time is past its expiresAt
PastExpiration(tok) ==
  /\ tok \in 1 .. issued
  /\ tok \notin revokedTokens
  /\ \E a \in activeTokens : a.token = tok /\ now > a.expiresAt

\* C18: validateAccessToken(token) is true exactly when the token was issued,
\* has not been revoked and the time is not past its expiresAt; a call that
\* finds the token past its expiration revokes it: the token leaves the active
\* set and joins the revoked set.
C18_ValidateAccessToken ==
  /\ [](\A tok \in TokenInputs :
          validateAccessToken(tok) =
            ( /\ tok \in 1 .. issued
              /\ tok \notin revokedTokens
              /\ ~PastExpiration(tok) ))
  /\ [][last'.op = "validateAccessToken" =>
        \A tok \in TokenInputs :
          ValidateAccessToken(tok) =>
            /\ last'.ok = validateAccessToken(tok)
            /\ PastExpiration(tok) =>
                 /\ ~last'.ok
                 /\ tok \in revokedTokens'
                 /\ getTokenInfo(activeTokens', tok) = {}]_vars

\* the one token issued was presented after its expiration and is now revoked
C18_Witness ==
  /\ last.op = "validateAccessToken"
  /\ ~last.ok
  /\ issued = 1
  /\ revokedTokens = {1}
  /\ activeTokens = {}
  /\ now > TicksPerDay

\* C19: revokeToken and revokeAllTokensForLoan are idempotent (a second call
\* with the same argument changes nothing), and revokeToken of a token that is
\* already revoked or was never issued leaves the active-token set and the
\* revoked-token set unchanged.
C19_RevokeIsIdempotent ==
  [][/\ \A tok \in TokenInputs :
          RevokeToken(tok) =>
            /\ revokeTokenActive(activeTokens', tok) = activeTokens'
            /\ revokeTokenRevoked(revokedTokens', tok) = revokedTokens'
            /\ (tok \in revokedTokens \/ tok \notin 1 .. issued) =>
                 UNCHANGED <<activeTokens, revokedTokens>>
     /\ \A l \in DrmLoanInputs :
          RevokeAllTokensForLoan(l) =>
            \A a \in activeTokens' : a.loanId # l]_vars

\* C20: a download request for a loan that carries the token of the loan's
\* downloadUrl is authorized by the download handler for as long as the loan
\* is active.
C20_DownloadUrlTokenWorks ==
  [][last'.op = "GET download" =>
     \A l \in LoanIds :
       (loans[l].status = "active" /\ DownloadRoute(l, downloadUrlToken(l))) =>
          (last'.ok /\ last'.status = 200)]_vars

Maximum(a, b) == IF a >= b THEN a ELSE b

\* C24: getTimeRemaining(loanId) is never negative, is 0 for an unknown loan
\* and for a returned or expired loan, and is max(0, expirationDate - now) for
\* an active loan.
C24_TimeRemaining ==
  \A l \in LoanIdInputs :
    /\ getTimeRemaining(l) >= 0
    /\ l \notin LoanIds => getTimeRemaining(l) = 0
    /\ l \in LoanIds =>
         getTimeRemaining(l) =
           IF loans[l].status \in {"returned", "expired"} THEN 0
           ELSE Maximum(0, loans[l].expirationDate - now)

\* the owner asked for a token for an active loan whose expiration time has
\* passed, and was refused: no time remains
C24_Witness ==
  /\ last.op = "authorizeDownload"
  /\ last.error = "Loan expired"
  /\ Len(loans) = 1
  /\ loans[1].status = "active"
  /\ now > loans[1].expirationDate

\* C26: a user who does not own the loan gets the same outcome from
\* authorizeDownload whether the loan exists under another user or does not
\* exist at all, so probing tells nothing about existence.
C26_ProbingTellsNothing ==
  \A u \in Users, l1 \in LoanIdInputs, l2 \in LoanIdInputs :
    (l1 \in LoanIds /\ loans[l1].userId # u /\ l2 \notin LoanIds)
    => authorizeDownloadError(l1, u) = authorizeDownloadError(l2, u)

\* C28: a token that authorizeDownload issues expires no later than the
\* expirationDate its loan has at the moment of issuance.
C28_TokenWithinLoan ==
  [][\A a \in activeTokens' \ activeTokens :
       a.expiresAt <= loans[a.loanId].expirationDate]_vars

\* C33: a token is valid only strictly before its expiration:
\* validateAccessToken is false whenever the time is equal to or later than
\* the token's expiresAt.
C33_ValidOnlyBeforeExpiration ==
  \A a \in activeTokens : now >= a.expiresAt => ~validateAccessToken(a.token)

\* C36: validity never comes back: once validateAccessToken is false for an
\* issued token, it stays false, and so does validateAccess for every item,
\* whatever operation comes next.
C36_ValidityNeverComesBack ==
  [][\A tok \in 1 .. issued :
       ~validateAccessToken(tok)
       => /\ ~validateAccessToken(tok)'
          /\ \A c \in ContentIds : ~validateAccess(tok, c)']_vars

\* token 1 was refused and revoked, a second token was issued for the same
\* loan since and is valid, and token 1 has just been refused again
C36_Witness ==
  /\ issued = 2
  /\ 1 \in revokedTokens
  /\ validateAccessToken(2)
  /\ \E a \in activeTokens : a.token = 2 /\ a.loanId = 1
  /\ last.op = "validateAccessToken"
  /\ ~last.ok

\* --------------------------------------------------- the checkout handler
ActiveLoansOfUser(u) ==
  {l \in LoanIds : loans[l].userId = u /\ loans[l].status = "active"}

C22_ReturnHandlerAnswers ==
  [][last'.op = "POST return (Firestore)" =>
     \A l \in FsLoanInputs, u \in Users :
       FsReturn(l, u) =>
         /\ last'.ok =>
              /\ l \in DOMAIN fsLoans
              /\ fsLoans[l].userId = u
              /\ fsLoans[l].status = "active"
         /\ l \notin DOMAIN fsLoans => last'.status = 404
         /\ (l \in DOMAIN fsLoans /\ fsLoans[l].userId # u) => last'.status = 403
         /\ ( /\ l \in DOMAIN fsLoans
              /\ fsLoans[l].userId = u
              /\ fsLoans[l].status # "active" ) => last'.status = 400
         /\ ~last'.ok => fsLoans' = fsLoans]_vars

\* ------------------------------------------- the Firestore checkout handler
FsActiveLoansOf(u, c) ==
  {i \in DOMAIN fsLoans : /\ fsLoans[i].userId = u
                          /\ fsLoans[i].contentId = c
                          /\ fsLoans[i].status = "active"}

\* the users who have an active stored loan of item c
FsActiveBorrowersOf(c) == {u \in Users : FsActiveLoansOf(u, c) # {}}

\* C27: checkout requests by different users for the last copy, served
\* concurrently by the Firestore handler, store at most one loan: once no
\* request is between addLoan and the decrement, the users holding an active
\* stored loan of an item and the copies still available never exceed the
\* item's total.
C27_CheckoutAtomicUnderConcurrency ==
  (\A p \in Requests : requests[p].pc # "decrement")
  => \A c \in Catalog :
       Cardinality(FsActiveBorrowersOf(c)) + availableCopies[c] <= totalCopies[c]

\* the first precondition, in the order limit, item not found, item
\* unavailable, duplicate, that a checkout of c by u violates in the stored
\* state; "" if none
FsFirstViolated(u, c) ==
  IF Cardinality(fsActiveUserLoans(u)) >= MAX_CONCURRENT_LOANS THEN LimitError
  ELSE IF ~getContent(c) THEN "Content not found"
  ELSE IF ~isAvailable(c) THEN "Content not available"
  ELSE IF hasActiveLoan(u, c) THEN "Content already checked out by user"
  ELSE ""

\* C31: a checkout request that violates several preconditions is answered
\* with the error of the first violated one in the order loan period, limit,
\* item not found, item unavailable, duplicate, in the Firestore handler as in
\* the others: whenever that handler refuses a request after the period check,
\* its error is the first in this order that the request violates.
C31_FirstViolatedPreconditionReported ==
  [][\A p \in Requests :
       (/\ requests[p].pc \in {"limit", "duplicate", "content"}
        /\ requests'[p].pc = "done")
       => requests'[p].error
            = FsFirstViolated(requests[p].userId, requests[p].contentId)]_vars

\* C34: a loan stored by the Firestore checkout handler expires by itself:
\* once the time is past its expirationDate and no return request was made,
\* its stored status becomes expired.
C34_StoredLoanExpires ==
  \A i \in 1 .. MaxRequests :
    (IF i \in DOMAIN fsLoans
     THEN fsLoans[i].status = "active" /\ now > fsLoans[i].expirationDate
     ELSE FALSE)
    ~> (IF i \in DOMAIN fsLoans THEN fsLoans[i].status = "expired" ELSE FALSE)

\* C35: through the Firestore handlers a successful return gives back the
\* copy the checkout reserved: when no request is in flight and every stored
\* loan has been returned, availableCopies is what it was before the checkouts.
C35_ReturnReleasesCopy ==
  ( /\ \A p \in Requests : requests[p].pc \in {"idle", "done"}
    /\ \A i \in DOMAIN fsLoans : fsLoans[i].status = "returned" )
  => availableCopies = InitialAvailableCopies

\* C8: of the checkout requests for one (userId, contentId) that the Firestore
\* handler serves concurrently one succeeds and the others fail with 'Content
\* already checked out by user': at most one active loan is stored per pair.
C8_OneStoredActiveLoanPerPair ==
  \A u \in Users, c \in ContentIds : Cardinality(FsActiveLoansOf(u, c)) <= 1

====
